---- MODULE Spec2Model ----
(***************************************************************************)
(* Client-tools self update: the directory lock (POSIX flock variant and   *)
(* Windows CreateFileW variant), the entry point main, and the update      *)
(* cycle it drives (CheckLocal, Download, Exec).                           *)
(*                                                                         *)
(* Every OS process is one invocation of main.  The lock file is           *)
(* <toolsDir>/.lock; an open descriptor (POSIX) or handle (Windows) on it  *)
(* is a record of the set handles.                                         *)
(***************************************************************************)
EXTENDS Integers, FiniteSets, Sequences, Bags, TLC

\* Number of concurrent invocations (OS processes) of the entry point.
NumProcs == 2

Procs == 1..NumProcs

\* update_test.go testVersions.
Versions == {"16.1.1", "17.1.2"}

\* main.Version, the build version of the running binary.
Version == "development"

\* First command line arguments tried: the special case and any other one.
Args == {"version", "ls"}

\* Exit codes a launched child may return.
ExitCodes == {0, 3}

\* Value of the environment pin when it is unset.
NoPin == ""

\* Exit status of a Go program that ends by an unrecovered panic.
PanicStatus == 2

\* Exit status of logrus Fatalf.
FatalStatus == 1

VARIABLES
    platform,      \* "unix" | "windows": the build the processes run
    dirExists,     \* the tools directory exists
    lockFile,      \* inode of <dir>/.lock, 0 when the file does not exist
    nextIno,       \* next inode number the file system hands out
    handles,       \* open descriptors/handles on lock files:
                   \* [proc, fd, ino, flock, access, share]
    installed,     \* versions promoted into the tools directory
    staging,       \* number of temp-tools-dir staging directories present
    downloads,     \* per version: completed download+install cycles
    pc,            \* per process: position in main / Download / lock
    args,          \* per process: os.Args[1]
    toolsVersion,  \* per process: first result of CheckLocal
    reExec,        \* per process: second result of CheckLocal
    lf,            \* per process: the os.File objects its lock calls made,
                   \* in order: [fd, closure, called, done]; fd is -1 once
                   \* closed, closure tells that lock returned a release
                   \* function for the file, called that it was called,
                   \* done that a call of it has returned
    rel,           \* the calls of POSIX release functions under way, a bag
                   \* of [proc, i, fd, step, ret]: the call of the i-th
                   \* release function of proc read descriptor fd and is
                   \* before its Flock ("flock") or its Close ("close");
                   \* ret: it is the call Download makes before it returns
    err,           \* per process: error of the update cycle, "nil" when none
    effects,       \* per process: what the invocation has done so far
    child,         \* per process: exit code the child returned, -1 when none
    exitKind,      \* per process: "none" | "return" | "exit" | "panic" | "killed"
    exitCode,      \* per process: exit status, -1 while running
    archive,       \* replace: names of the entries of the zip file, in order
    idx,           \* replace: index of the entry the loop is at
    rpc,           \* replace: "idle" | "open" | "mkdirtemp" | "loop" |
                   \* "returned" | "killed"
    files,         \* replace: files under the tools directory, [path, content]
    rerr           \* replace: the error replace returned, "nil" when none

vars == <<platform, dirExists, lockFile, nextIno, handles, installed, staging,
          downloads, pc, args, toolsVersion, reExec, lf, err, effects, child,
          exitKind, exitCode, rel, archive, idx, rpc, files, rerr>>

replVars == <<archive, idx, rpc, files, rerr>>

fsVars == <<dirExists, lockFile, nextIno>>
toolVars == <<installed, staging, downloads>>
inputVars == <<args, toolsVersion, reExec>>
argVars == <<args, reExec>>
endVars == <<child, exitKind, exitCode>>

----------------------------------------------------------------------------
(* Operating system primitives used by lock.                               *)

\* The descriptors/handles process p has open.
HandlesOf(p) == {h \in handles : h.proc = p}

\* The descriptor/handle number fd of process p, if open.
HandleOf(p, fd) == {h \in handles : h.proc = p /\ h.fd = fd}

\* The number the operating system gives the next descriptor/handle of p:
\* the lowest one p has not open.
FreeFd(p) ==
    CHOOSE n \in 0..Cardinality(HandlesOf(p)) :
        /\ HandleOf(p, n) = {}
        /\ \A m \in 0..(n - 1) : HandleOf(p, m) # {}

\* A lock taken with LOCK_SH instead of LOCK_EX: holders never conflict.
FlockConflictShared(h) == FALSE

\* flock(2), LOCK_EX on the open file description h: the request conflicts
\* with a lock held through another open file description of the same inode,
\* whichever process has it.
FlockConflict(h) ==
    \E g \in handles : g # h /\ g.ino = h.ino /\ g.flock

\* CreateFileW arguments of the Windows lock.
DesiredAccess == {"GENERIC_READ", "GENERIC_WRITE"}
ShareMode == {"FILE_SHARE_READ", "FILE_SHARE_WRITE"}

\* The access rights a share mode lets other openers have.
Permits(share) ==
    {a \in {"GENERIC_READ", "GENERIC_WRITE"} :
        \/ a = "GENERIC_READ" /\ "FILE_SHARE_READ" \in share
        \/ a = "GENERIC_WRITE" /\ "FILE_SHARE_WRITE" \in share}

\* CreateFileW fails with ERROR_SHARING_VIOLATION when the requested access is
\* not permitted by the share mode of an existing handle, or the access of an
\* existing handle is not permitted by the requested share mode.
SharingViolation(ino, access, share) ==
    \E h \in handles :
        /\ h.ino = ino
        /\ ~(access \subseteq Permits(h.share) /\ h.access \subseteq Permits(share))

\* The handle a successful open by p yields.
NewHandle(p, ino) ==
    [proc |-> p, fd |-> FreeFd(p), ino |-> ino, flock |-> FALSE,
     access |-> DesiredAccess, share |-> ShareMode]

\* The os.File made for a descriptor/handle: no release function yet.
NewFile(fd) == [fd |-> fd, closure |-> FALSE, called |-> FALSE, done |-> FALSE]

\* The os.File of the lock call in progress, or of the last one.
LastFile(p) == lf[p][Len(lf[p])]

\* lock returns the release function of the last os.File.
ReturnClosure(p) ==
    [lf EXCEPT ![p] = [@ EXCEPT ![Len(@)] = [@ EXCEPT !.closure = TRUE]]]

\* An open without O_CREATE (OPEN_EXISTING): no file is made.
OpenExisting == lockFile

\* O_CREATE / OPEN_ALWAYS: the inode the open yields.
OpenOrCreate == IF lockFile = 0 THEN nextIno ELSE lockFile

\* os.Exit(code): a POSIX exit status keeps the low 8 bits.
OsExit(code) == IF platform = "unix" THEN code % 256 ELSE code

----------------------------------------------------------------------------
\* No invocation has started and the tools directory holds nothing.
InitUpdate ==
    /\ lockFile = 0
    /\ nextIno = 1
    /\ handles = {}
    /\ installed = {}
    /\ staging = 0
    /\ downloads = [v \in Versions |-> 0]
    /\ toolsVersion = [p \in Procs |-> Version]
    /\ reExec = [p \in Procs |-> FALSE]
    /\ lf = [p \in Procs |-> <<>>]
    /\ rel = EmptyBag
    /\ err = [p \in Procs |-> "nil"]
    /\ effects = [p \in Procs |-> {}]
    /\ child = [p \in Procs |-> -1]
    /\ exitKind = [p \in Procs |-> "none"]
    /\ exitCode = [p \in Procs |-> -1]

\* No call of replace is under way.
InitNoReplace ==
    /\ archive = <<>>
    /\ idx = 0
    /\ rpc = "idle"
    /\ files = {}
    /\ rerr = "nil"

\* The invocations are interchangeable: their command lines are taken up to
\* the order of the processes.
Init ==
    /\ platform \in {"unix", "windows"}
    /\ dirExists = FALSE
    /\ args \in {a \in [Procs -> Args] :
                    \A p, q \in Procs : p < q /\ a[p] = "version" => a[q] = "version"}
    /\ pc = [p \in Procs |-> "main"]
    /\ InitUpdate
    /\ InitNoReplace

----------------------------------------------------------------------------
(* The test harness: TestUpdate creates the tools directory.               *)

MkdirAll ==
    /\ ~dirExists
    /\ dirExists' = TRUE
    /\ UNCHANGED <<platform, rel, replVars, lockFile, nextIno, handles, toolVars, pc,
                   inputVars, lf, err, effects, endVars>>

----------------------------------------------------------------------------
(* main: version resolution.                                               *)

\* CheckLocal: the pinned version and whether it differs from the build.
CheckLocal(pin) ==
    [toolsVersion |-> IF pin = NoPin THEN Version ELSE pin,
     reExec |-> pin # NoPin /\ pin # Version]

\* A main that starts the update whatever CheckLocal reports.
MainBranchAlways(reexec) == "lock"

\* main: where control goes after CheckLocal returned reexec.
MainBranch(reexec) == IF reexec THEN "lock" ELSE "version"

\* main line 59-64: CheckLocal, then Download(toolsVersion) when reExec.
\* Download starts by calling lock(dir).
MainCheckLocal(p) ==
    /\ pc[p] = "main"
    /\ \E pin \in Versions \cup {NoPin} :
        LET r == CheckLocal(pin) IN
        /\ toolsVersion' = [toolsVersion EXCEPT ![p] = r.toolsVersion]
        /\ reExec' = [reExec EXCEPT ![p] = r.reExec]
        /\ pc' = [pc EXCEPT ![p] = MainBranch(r.reExec)]
        /\ effects' = [effects EXCEPT ![p] =
              IF MainBranch(r.reExec) = "lock" THEN @ \cup {"Download"} ELSE @]
    /\ UNCHANGED <<platform, rel, replVars, fsVars, handles, toolVars, args, lf,
                   err, endVars>>

----------------------------------------------------------------------------
(* lock, POSIX variant.                                                    *)

\* The error of os.OpenFile: ENOENT without the directory; and with it,
\* when the operating system refuses the open (fault): EACCES, EISDIR,
\* EMFILE and the like, all returned the same way.
OpenFileError(fault) ==
    IF ~dirExists THEN "ENOENT" ELSE IF fault THEN "EACCES" ELSE "nil"

\* lock line 20-23: os.OpenFile(lockFile, O_CREATE|O_WRONLY|O_APPEND); on
\* an error lock returns it, no file is made and none is open.
lock_OpenFile(p) ==
    /\ platform = "unix"
    /\ pc[p] = "lock"
    /\ \E fault \in BOOLEAN :
       IF OpenFileError(fault) # "nil"
       THEN /\ err' = [err EXCEPT ![p] = OpenFileError(fault)]
            /\ pc' = [pc EXCEPT ![p] = "download_ret"]
            /\ UNCHANGED <<lockFile, nextIno, handles, lf, effects>>
       ELSE /\ lockFile' = OpenOrCreate
            /\ nextIno' = IF lockFile = 0 THEN nextIno + 1 ELSE nextIno
            /\ handles' = handles \cup {NewHandle(p, OpenOrCreate)}
            /\ lf' = [lf EXCEPT ![p] = Append(@, NewFile(FreeFd(p)))]
            /\ effects' = [effects EXCEPT ![p] =
                  IF lockFile = 0 THEN @ \cup {"write"} ELSE @]
            /\ pc' = [pc EXCEPT ![p] = "flock"]
            /\ UNCHANGED err
    /\ UNCHANGED <<platform, rel, replVars, dirExists, toolVars, inputVars, endVars>>

\* A lock taken with LOCK_EX|LOCK_NB: under contention Flock returns
\* EWOULDBLOCK at once instead of waiting.
lock_FlockNonBlocking(p) ==
    /\ platform = "unix"
    /\ pc[p] = "flock"
    /\ \E h \in HandleOf(p, LastFile(p).fd) :
        IF FlockConflict(h)
        THEN /\ err' = [err EXCEPT ![p] = "EWOULDBLOCK"]
             /\ pc' = [pc EXCEPT ![p] = "download_ret"]
             /\ UNCHANGED <<handles, lf, effects>>
        ELSE /\ handles' = (handles \ {h}) \cup {[h EXCEPT !.flock = TRUE]}
             /\ lf' = ReturnClosure(p)
             /\ effects' = [effects EXCEPT ![p] = @ \cup {"lock"}]
             /\ pc' = [pc EXCEPT ![p] = "locked"]
             /\ UNCHANGED err
    /\ UNCHANGED <<platform, rel, replVars, fsVars, toolVars, inputVars, endVars>>

\* lock line 24: syscall.Flock(fd, LOCK_EX) returns once no other open file
\* description holds a lock on the inode; lock then returns the closure.
lock_Flock(p) ==
    /\ platform = "unix"
    /\ pc[p] = "flock"
    /\ \E h \in HandleOf(p, LastFile(p).fd) :
        /\ ~FlockConflict(h)
        /\ handles' = (handles \ {h}) \cup {[h EXCEPT !.flock = TRUE]}
    /\ lf' = ReturnClosure(p)
    /\ effects' = [effects EXCEPT ![p] = @ \cup {"lock"}]
    /\ pc' = [pc EXCEPT ![p] = "locked"]
    /\ UNCHANGED <<platform, rel, replVars, fsVars, toolVars, inputVars, err,
                   endVars>>

\* lock line 24-26: Flock fails for a reason of the operating system (ENOLCK,
\* EINTR); lock returns the error and lf stays open.
lock_FlockError(p) ==
    /\ platform = "unix"
    /\ pc[p] = "flock"
    /\ err' = [err EXCEPT ![p] = "ENOLCK"]
    /\ pc' = [pc EXCEPT ![p] = "download_ret"]
    /\ UNCHANGED <<platform, rel, replVars, fsVars, handles, toolVars, inputVars,
                   lf, effects,
                   endVars>>

\* The calls of release functions of p that are under way.
RelOf(p) == {r \in BagToSet(rel) : r.proc = p}

\* The calls under way without those of p.
RelWithout(p) ==
    LET keep == {r \in BagToSet(rel) : r.proc # p}
    IN  [r \in keep |-> rel[r]]

\* A Close that closes nothing: the call is only noted.
CloseFileLeak(p, i) ==
    /\ UNCHANGED handles
    /\ lf' = [lf EXCEPT ![p] = [@ EXCEPT ![i] =
                 [@ EXCEPT !.called = TRUE, !.done = TRUE]]]
    /\ UNCHANGED fsVars

\* A Close followed by the removal of the lock file (os.Remove(lockFile)).
CloseFileRemove(p, i) ==
    /\ handles' = handles \ HandleOf(p, lf[p][i].fd)
    /\ lf' = [lf EXCEPT ![p] = [@ EXCEPT ![i] =
                 [@ EXCEPT !.fd = -1, !.called = TRUE, !.done = TRUE]]]
    /\ lockFile' = 0
    /\ UNCHANGED <<dirExists, nextIno>>

\* A close of the descriptor number (syscall.Close(fd)) by a release
\* function that keeps the number instead of the os.File: the number is
\* closed, whatever it denotes by now, and stays in use.
CloseFileRawFd(p, i) ==
    /\ handles' = handles \ HandleOf(p, lf[p][i].fd)
    /\ lf' = [lf EXCEPT ![p] = [@ EXCEPT ![i] =
                 [@ EXCEPT !.called = TRUE, !.done = TRUE]]]
    /\ UNCHANGED fsVars

\* lf.Close() (line 35, line 220) by a call of the i-th release function of
\* p, which returns after it: the descriptor/handle of the os.File is closed
\* and the os.File keeps -1 for it.  On a closed os.File, Close returns
\* os.ErrClosed, which is logged, and nothing is closed.  The lock file is
\* not removed.
CloseFile(p, i) ==
    /\ handles' = handles \ HandleOf(p, lf[p][i].fd)
    /\ lf' = [lf EXCEPT ![p] = [@ EXCEPT ![i] =
                 [@ EXCEPT !.fd = -1, !.called = TRUE, !.done = TRUE]]]
    /\ UNCHANGED fsVars

\* A call of the i-th release function of p begins.  POSIX, line 29: it
\* reads int(lf.Fd()), which is -1 when the os.File is closed, and goes on
\* to Flock.  Windows, line 220: the function is lockFile.Close() alone.
release_Start(p, i, ret) ==
    IF platform = "unix"
    THEN /\ rel' = rel (+) SetToBag({[proc |-> p, i |-> i, fd |-> lf[p][i].fd,
                                      step |-> "flock", ret |-> ret]})
         /\ lf' = [lf EXCEPT ![p] = [@ EXCEPT ![i] = [@ EXCEPT !.called = TRUE]]]
         /\ UNCHANGED <<handles, fsVars>>
    ELSE /\ CloseFile(p, i)
         /\ UNCHANGED rel

\* The release closure, POSIX, line 29: syscall.Flock(fd, LOCK_UN) on the
\* number read before.  The lock of the open file description the number
\* denotes now is dropped; when the number denotes nothing, Flock fails
\* with EBADF, which is logged.
release_Flock(r) ==
    /\ r \in BagToSet(rel)
    /\ r.step = "flock"
    /\ handles' = (handles \ HandleOf(r.proc, r.fd))
                      \cup {[h EXCEPT !.flock = FALSE] : h \in HandleOf(r.proc, r.fd)}
    /\ rel' = (rel (-) SetToBag({r})) (+) SetToBag({[r EXCEPT !.step = "close"]})
    /\ UNCHANGED <<platform, replVars, fsVars, toolVars, pc, inputVars, lf,
                   err, effects, endVars>>

\* The release closure, POSIX, line 35: lf.Close(); the closure returns,
\* and when it was called by Download, Download returns to main.
release_Close(r) ==
    /\ r \in BagToSet(rel)
    /\ r.step = "close"
    /\ CloseFile(r.proc, r.i)
    /\ rel' = rel (-) SetToBag({r})
    /\ pc' = IF r.ret THEN [pc EXCEPT ![r.proc] = "download_ret"] ELSE pc
    /\ UNCHANGED <<platform, replVars, toolVars, inputVars, err, effects,
                   endVars>>

----------------------------------------------------------------------------
(* lock, Windows variant.                                                  *)

\* lock line 194-211: CreateFileW(path, GENERIC_READ|GENERIC_WRITE,
\* FILE_SHARE_READ|FILE_SHARE_WRITE, OPEN_ALWAYS) and the switch on its
\* error; "ok" when the handle was opened.  fault: CreateFileW fails with
\* another error than a sharing violation (ERROR_ACCESS_DENIED for a
\* read-only .lock and the like), which the default branch returns.
CreateFileResult(fault) ==
    IF ~dirExists THEN "ERROR_PATH_NOT_FOUND"
    ELSE IF fault THEN "ERROR_ACCESS_DENIED"
    ELSE IF lockFile # 0 /\ SharingViolation(lockFile, DesiredAccess, ShareMode)
         THEN "ErrLocked"
         ELSE "ok"

\* lock line 186-224: the whole Windows lock call; inheritable is the outcome
\* of SetHandleInformation.
lock_CreateFile(p) ==
    /\ platform = "windows"
    /\ pc[p] = "lock"
    /\ \E inheritable, fault \in BOOLEAN :
        IF CreateFileResult(fault) # "ok"
        THEN /\ err' = [err EXCEPT ![p] = CreateFileResult(fault)]
             /\ pc' = [pc EXCEPT ![p] = "download_ret"]
             /\ UNCHANGED <<lockFile, nextIno, handles, lf, effects>>
        ELSE /\ lockFile' = OpenOrCreate
             /\ nextIno' = IF lockFile = 0 THEN nextIno + 1 ELSE nextIno
             /\ handles' = handles \cup {NewHandle(p, OpenOrCreate)}
             /\ IF inheritable
                THEN /\ lf' = [lf EXCEPT ![p] =
                           Append(@, [NewFile(FreeFd(p)) EXCEPT !.closure = TRUE])]
                     /\ effects' = [effects EXCEPT ![p] =
                           (IF lockFile = 0 THEN @ \cup {"write"} ELSE @)
                               \cup {"lock"}]
                     /\ pc' = [pc EXCEPT ![p] = "locked"]
                     /\ UNCHANGED err
                ELSE /\ err' = [err EXCEPT ![p] = "SetHandleInformation"]
                     /\ effects' = [effects EXCEPT ![p] =
                           IF lockFile = 0 THEN @ \cup {"write"} ELSE @]
                     /\ pc' = [pc EXCEPT ![p] = "download_ret"]
                     /\ lf' = [lf EXCEPT ![p] = Append(@, NewFile(FreeFd(p)))]
    /\ UNCHANGED <<platform, rel, replVars, dirExists, toolVars, inputVars, endVars>>

----------------------------------------------------------------------------
(* replace, the Windows install: archives, paths and file creation.        *)

\* Longest archive tried, in entries.
MaxEntries == 2

\* Names of archive entries, as lists of path components: the two binaries
\* replace looks for, the entry of the test archive (update_test.go
\* generateZipFile: filepath.Base of the built binary), a name with a path
\* traversal and a name with a directory component.
ZipNames ==
    {<<"tsh.exe">>, <<"tctl.exe">>, <<"tsh">>, <<"..", "tsh.exe">>,
     <<"teleport", "tsh.exe">>}

Archives == UNION {[1..n -> ZipNames] : n \in 0..MaxEntries}

\* The binaries the tools directory holds on Windows.
Binaries == {"tsh.exe", "tctl.exe"}

\* toolsDir(): <home>/bin.
ToolsDir == <<"home", "bin">>

\* The directory os.MkdirTemp(dir, "temp-tools-dir") creates.
TempDir == ToolsDir \o <<"temp-tools-dir">>

\* Everything of the update cycle that replace leaves alone.
updVars ==
    <<platform, dirExists, lockFile, nextIno, handles, installed, downloads,
      pc, args, toolsVersion, reExec, lf, err, effects, child, exitKind,
      exitCode, rel>>

\* filepath.Clean of a rooted path: a ".." component removes the component
\* before it.
RECURSIVE Clean(_)
Clean(path) ==
    IF path = <<>> THEN <<>>
    ELSE LET head == Clean(SubSeq(path, 1, Len(path) - 1))
             last == path[Len(path)]
         IN  IF last = ".."
             THEN IF head = <<>> THEN <<>> ELSE SubSeq(head, 1, Len(head) - 1)
             ELSE Append(head, last)

\* filepath.Join(dir, name).
Join(dir, name) == Clean(dir \o name)

\* A filter on the base name of the entry.
WantedBase(name) == name[Len(name)] \in Binaries

\* replace line 149: the entry is extracted when its name is exactly tsh.exe
\* or tctl.exe.
Wanted(name) == name = <<"tsh.exe">> \/ name = <<"tctl.exe">>

\* os.CreateTemp rejects a pattern that contains a path separator.
PatternHasSeparator(pattern) == Len(pattern) > 1

\* os.Create(dest): the file is created at dest itself.
CreateInPlace(dir, pattern) == [err |-> "nil", path |-> pattern]

\* replace line 161: os.CreateTemp(tempDir, dest).  The new file is
\* <dir>/<pattern><random>; the random part is left out of the name.
CreateTemp(dir, pattern) ==
    IF PatternHasSeparator(pattern)
    THEN [err |-> "CreateTemp", path |-> <<>>]
    ELSE [err |-> "nil", path |-> dir \o pattern]

\* The files after content was written to path.
Write(path, content) ==
    {f \in files : f.path # path} \cup {[path |-> path, content |-> content]}

\* What can go wrong at one entry, apart from CreateTemp: r.Open, os.Chmod or
\* io.Copy fails, or the process is terminated during the copy.
EntryOutcomes == {"nil", "Open", "Chmod", "Copy", "kill"}

----------------------------------------------------------------------------
(* Download, between lock and release.                                     *)

\* Holding the lock, Download looks for the version in the tools directory.
Download_Check(p) ==
    /\ pc[p] = "locked"
    /\ pc' = [pc EXCEPT ![p] =
          IF toolsVersion[p] \in installed THEN "release" ELSE "fetch"]
    /\ UNCHANGED <<platform, rel, replVars, fsVars, handles, toolVars, inputVars,
                   lf, err,
                   effects, endVars>>

\* The artifact and its checksum are fetched; ok is the outcome.
Download_Fetch(p) ==
    /\ pc[p] = "fetch"
    /\ \E ok \in BOOLEAN :
        /\ err' = [err EXCEPT ![p] = IF ok THEN @ ELSE "fetch"]
        /\ pc' = [pc EXCEPT ![p] = IF ok THEN "install" ELSE "release"]
    /\ effects' = [effects EXCEPT ![p] = @ \cup {"fetch"}]
    /\ UNCHANGED <<platform, rel, replVars, fsVars, handles, toolVars, inputVars,
                   lf, endVars>>

\* POSIX install: extract to staging and rename into the tools directory.
install_unix(v) ==
    /\ installed' = installed \cup {v}
    /\ UNCHANGED staging

\* replace line 147-183: the errors the loop can return from entry i on,
\* "nil" when it can come to its end.
RECURSIVE LoopErrors(_, _)
LoopErrors(a, i) ==
    IF i > Len(a) THEN {"nil"}
    ELSE IF ~Wanted(a[i]) THEN LoopErrors(a, i + 1)
    ELSE LET t == CreateTemp(TempDir, Join(ToolsDir, a[i]))
         IN  {"Open"} \cup
                 (IF t.err # "nil" THEN {t.err}
                  ELSE {"Chmod", "Copy"} \cup LoopErrors(a, i + 1))

\* replace line 124-184, one whole call on archive a: whether the
\* temp-tools-dir was made, and the error returned.
ReplaceOutcomes(a) ==
    {[staged |-> FALSE, err |-> e] : e \in {"Open", "MkdirTemp"}}
        \cup {[staged |-> TRUE, err |-> e] : e \in LoopErrors(a, 1)}

\* The outcomes of replace over the archives a download can bring.
DownloadedOutcomes == UNION {ReplaceOutcomes(a) : a \in Archives}

\* replace (Windows) as Download sees it, with outcome o: the staging
\* directory stays, nothing is moved to a final path, and an error of
\* replace is the error of Download.
replace(p, o) ==
    /\ staging' = IF o.staged THEN staging + 1 ELSE staging
    /\ err' = [err EXCEPT ![p] = IF o.err = "nil" THEN @ ELSE "replace"]
    /\ downloads' = [downloads EXCEPT ![toolsVersion[p]] =
          IF o.err = "nil" THEN @ + 1 ELSE @]
    /\ effects' = [effects EXCEPT ![p] =
          IF o.staged THEN @ \cup {"write"} ELSE @]
    /\ UNCHANGED installed

Download_Install(p) ==
    /\ pc[p] = "install"
    /\ IF platform = "unix"
       THEN /\ install_unix(toolsVersion[p])
            /\ downloads' = [downloads EXCEPT ![toolsVersion[p]] = @ + 1]
            /\ effects' = [effects EXCEPT ![p] = @ \cup {"write"}]
            /\ UNCHANGED err
       ELSE \E o \in DownloadedOutcomes : replace(p, o)
    /\ pc' = [pc EXCEPT ![p] = "release"]
    /\ UNCHANGED <<platform, rel, replVars, fsVars, handles, inputVars, lf,
                   endVars>>

\* Download calls the release function lock returned; on Windows the
\* function is over with this step and Download returns to main.
release(p) ==
    /\ pc[p] = "release"
    /\ release_Start(p, Len(lf[p]), TRUE)
    /\ pc' = [pc EXCEPT ![p] =
          IF platform = "unix" THEN "releasing" ELSE "download_ret"]
    /\ UNCHANGED <<platform, replVars, toolVars, inputVars, err, effects,
                   endVars>>

----------------------------------------------------------------------------
(* main, after Download.                                                   *)

\* How the process ends: its exit status is recorded, its memory is gone and
\* the operating system closes the descriptors and handles it left open.
End(p, kind, code) ==
    /\ pc' = [pc EXCEPT ![p] = "done"]
    /\ toolsVersion' = [toolsVersion EXCEPT ![p] = Version]
    /\ exitKind' = [exitKind EXCEPT ![p] = kind]
    /\ exitCode' = [exitCode EXCEPT ![p] = code]
    /\ handles' = handles \ HandlesOf(p)
    /\ lf' = [lf EXCEPT ![p] = <<>>]
    /\ rel' = RelWithout(p)

\* A main that ignores the error Download returned.
DownloadOkAlways(p) == TRUE

\* main line 64: err == nil after update.Download(toolsVersion).
DownloadOk(p) == err[p] = "nil"

\* main line 64-67: Download returned an error: panic(trace.Wrap(err)).
MainDownloadFailed(p) ==
    /\ pc[p] = "download_ret"
    /\ ~DownloadOk(p)
    /\ End(p, "panic", PanicStatus)
    /\ UNCHANGED <<platform, replVars, fsVars, toolVars, argVars, err, effects,
                   child>>

\* main line 70-75, the child could not be launched: log.Fatalf.
MainExecFailed(p) ==
    /\ pc[p] = "download_ret"
    /\ DownloadOk(p)
    /\ err' = [err EXCEPT ![p] = "exec"]
    /\ effects' = [effects EXCEPT ![p] = @ \cup {"Exec"}]
    /\ End(p, "exit", FatalStatus)
    /\ UNCHANGED <<platform, replVars, fsVars, toolVars, argVars, child>>

\* A main that takes a non-zero exit code of the child for a re-exec error.
MainExitNonZeroFatal(p, code) ==
    IF code # 0 THEN End(p, "exit", FatalStatus) ELSE End(p, "exit", OsExit(code))

\* main line 73-75: what main does with the code Exec returned.
MainExit(p, code) == End(p, "exit", OsExit(code))

\* main line 70-75, the child ran and returned code: os.Exit(code).
MainExec(p) ==
    /\ pc[p] = "download_ret"
    /\ DownloadOk(p)
    /\ \E code \in ExitCodes :
        /\ child' = [child EXCEPT ![p] = code]
        /\ MainExit(p, code)
    /\ effects' = [effects EXCEPT ![p] = @ \cup {"Exec"}]
    /\ UNCHANGED <<platform, replVars, fsVars, toolVars, argVars, err>>

\* A version test that is inverted.
PrintsVersionInverted(p) == args[p] # "version"

\* main line 77: len(os.Args) > 1 && os.Args[1] == "version".
PrintsVersion(p) == args[p] = "version"

\* main line 77-80: print the version when asked, and return.
MainVersion(p) ==
    /\ pc[p] = "version"
    /\ effects' = [effects EXCEPT ![p] =
          IF PrintsVersion(p) THEN @ \cup {"print"} ELSE @]
    /\ End(p, "return", 0)
    /\ UNCHANGED <<platform, replVars, fsVars, toolVars, argVars, err, child>>

\* The process is terminated from outside while it has the lock file open
\* (waiting for the lock, holding it, or after a failed acquire); the
\* operating system closes its descriptors and handles.
Kill(p) ==
    /\ pc[p] # "done"
    /\ HandlesOf(p) # {}
    /\ End(p, "killed", -1)
    /\ UNCHANGED <<platform, replVars, fsVars, toolVars, argVars, err, effects,
                   child>>

----------------------------------------------------------------------------
\* The steps of one process that both builds share, and the POSIX lock.
Step(p) ==
    \/ MainCheckLocal(p)
    \/ lock_OpenFile(p)
    \/ lock_Flock(p)
    \/ lock_FlockError(p)
    \/ Download_Check(p)
    \/ Download_Fetch(p)
    \/ Download_Install(p)
    \/ release(p)
    \/ \E r \in RelOf(p) : release_Flock(r)
    \/ \E r \in RelOf(p) : release_Close(r)
    \/ MainDownloadFailed(p)
    \/ MainExecFailed(p)
    \/ MainExec(p)
    \/ MainVersion(p)

NextUnix == MkdirAll \/ \E p \in Procs : Step(p) \/ Kill(p)

Next == NextUnix \/ \E p \in Procs : lock_CreateFile(p)

Spec == Init /\ [][Next]_vars

\* The POSIX build alone; the command line plays no part in the lock.
InitUnix == Init /\ platform = "unix" /\ args = [p \in Procs |-> "ls"]

\* A step of Download by a process that holds the lock, up to the return of
\* the release function.
HolderStep(p) ==
    \/ Download_Check(p) \/ Download_Fetch(p) \/ Download_Install(p)
    \/ release(p)
    \/ \E r \in RelOf(p) : release_Flock(r)
    \/ \E r \in RelOf(p) : release_Close(r)

\* The scheduler keeps running the processes that hold the lock or are in
\* their release function, and a lock that is free again and again is
\* granted to a waiter in Flock.  Every invocation makes finitely many steps,
\* so fairness to the holders together, and to the waiters together, lets
\* each of them go on.
Fairness ==
    /\ WF_vars(\E p \in Procs : HolderStep(p))
    /\ SF_vars(\E p \in Procs : lock_Flock(p))

LiveSpec == InitUnix /\ [][NextUnix]_vars /\ Fairness

----------------------------------------------------------------------------
(* lock and its release functions under any caller: a process calls        *)
(* lock(dir) again and again and calls the release functions it got, each  *)
(* any number of times, one call after the other.                          *)

\* Most calls in one run, by all processes together: the lock(dir) calls that
\* made an os.File, plus the calls of release functions under way.
MaxCalls == 3

\* The lock(dir) calls made so far that got as far as an os.File.
LockCalls ==
    {c \in Procs \X (1..MaxCalls) : c[2] <= Len(lf[c[1]])}

\* The calls the run has used up: a lock(dir) call counts while it is under
\* way and, once it made an os.File, for good.
Calls ==
    Cardinality({p \in Procs : pc[p] = "lock"}) + Cardinality(LockCalls)
        + BagCardinality(rel)

InitLock ==
    /\ platform \in {"unix", "windows"}
    /\ dirExists = TRUE
    /\ args = [p \in Procs |-> "ls"]
    /\ pc = [p \in Procs |-> "idle"]
    /\ InitUpdate
    /\ InitNoReplace

\* The process calls lock(dir), its previous call of lock or of a release
\* function, if any, having returned.
Caller_Lock(p) ==
    /\ pc[p] \in {"idle", "locked", "download_ret"}
    /\ RelOf(p) = {}
    /\ Calls < MaxCalls
    /\ pc' = [pc EXCEPT ![p] = "lock"]
    /\ err' = [err EXCEPT ![p] = "nil"]
    /\ effects' = [effects EXCEPT ![p] = {}]
    /\ UNCHANGED <<platform, rel, replVars, fsVars, handles, toolVars, inputVars, lf,
                   endVars>>

\* The process calls the release function its i-th lock call returned, its
\* previous call of lock or of a release function having returned.
Caller_Release(p, i) ==
    /\ i \in DOMAIN lf[p]
    /\ lf[p][i].closure
    /\ pc[p] \in {"idle", "locked", "download_ret"}
    /\ RelOf(p) = {}
    /\ Calls < MaxCalls
    /\ release_Start(p, i, FALSE)
    /\ UNCHANGED <<platform, replVars, toolVars, pc, inputVars, err, effects,
                   endVars>>

\* The garbage collector runs the finalizer of an os.File that no release
\* function refers to (lock returned an error after it was made): the
\* finalizer closes the file.
Finalize(p, i) ==
    /\ i \in DOMAIN lf[p]
    /\ ~lf[p][i].closure
    /\ lf[p][i].fd # -1
    /\ ~(pc[p] = "flock" /\ i = Len(lf[p]))
    /\ handles' = handles \ HandleOf(p, lf[p][i].fd)
    /\ lf' = [lf EXCEPT ![p] = [@ EXCEPT ![i] = [@ EXCEPT !.fd = -1]]]
    /\ UNCHANGED <<platform, rel, replVars, fsVars, toolVars, pc, inputVars, err,
                   effects, endVars>>

NextLock ==
    \E p \in Procs :
        \/ Caller_Lock(p)
        \/ lock_OpenFile(p)
        \/ lock_Flock(p)
        \/ lock_FlockError(p)
        \/ lock_CreateFile(p)
        \/ \E i \in 1..MaxCalls : Caller_Release(p, i)
        \/ \E r \in RelOf(p) : release_Flock(r)
        \/ \E r \in RelOf(p) : release_Close(r)
        \/ \E i \in 1..MaxCalls : Finalize(p, i)

LockSpec == InitLock /\ [][NextLock]_vars

----------------------------------------------------------------------------
(* replace, the Windows install: one call, step by step.                   *)

\* replace is called on a downloaded archive; binaries of an earlier version
\* may be in the tools directory.
InitReplace ==
    /\ platform = "windows"
    /\ dirExists = TRUE
    /\ args = [p \in Procs |-> "ls"]
    /\ pc = [p \in Procs |-> "main"]
    /\ InitUpdate
    /\ archive \in Archives
    /\ idx = 0
    /\ rpc = "open"
    /\ files \in {{[path |-> Join(ToolsDir, <<b>>), content |-> "old"] : b \in S} :
                    S \in SUBSET Binaries}
    /\ rerr = "nil"

\* replace line 125-141: os.Open, f.Stat, zip.NewReader, toolsDir.
replace_Open ==
    /\ rpc = "open"
    /\ \E ok \in BOOLEAN :
        /\ rpc' = IF ok THEN "mkdirtemp" ELSE "returned"
        /\ rerr' = IF ok THEN "nil" ELSE "Open"
    /\ UNCHANGED <<updVars, staging, archive, idx, files>>

\* replace line 142-145: os.MkdirTemp(dir, "temp-tools-dir").
replace_MkdirTemp ==
    /\ rpc = "mkdirtemp"
    /\ \E ok \in BOOLEAN :
        /\ rpc' = IF ok THEN "loop" ELSE "returned"
        /\ rerr' = IF ok THEN "nil" ELSE "MkdirTemp"
        /\ staging' = IF ok THEN staging + 1 ELSE staging
        /\ idx' = IF ok THEN 1 ELSE idx
    /\ UNCHANGED <<updVars, archive, files>>

\* replace line 147-171: one turn of the loop over zipReader.File.
replace_Entry ==
    /\ rpc = "loop"
    /\ idx <= Len(archive)
    /\ LET r == archive[idx]
           dest == Join(ToolsDir, r)
           t == CreateTemp(TempDir, dest)
       IN  IF ~Wanted(r)
           THEN /\ idx' = idx + 1
                /\ UNCHANGED <<rpc, files, rerr>>
           ELSE \E out \in EntryOutcomes :
                IF out = "Open"
                THEN /\ rpc' = "returned" /\ rerr' = "Open"
                     /\ UNCHANGED <<idx, files>>
                ELSE IF t.err # "nil"
                THEN /\ rpc' = "returned" /\ rerr' = t.err
                     /\ UNCHANGED <<idx, files>>
                ELSE IF out = "Chmod"
                THEN /\ rpc' = "returned" /\ rerr' = "Chmod"
                     /\ files' = Write(t.path, "empty")
                     /\ UNCHANGED idx
                ELSE IF out = "Copy"
                THEN /\ rpc' = "returned" /\ rerr' = "Copy"
                     /\ files' = Write(t.path, "partial")
                     /\ UNCHANGED idx
                ELSE IF out = "kill"
                THEN /\ rpc' = "killed"
                     /\ files' = Write(t.path, "partial")
                     /\ UNCHANGED <<idx, rerr>>
                ELSE /\ idx' = idx + 1
                     /\ files' = Write(t.path, "new")
                     /\ UNCHANGED <<rpc, rerr>>
    /\ UNCHANGED <<updVars, staging, archive>>

\* replace line 183: the loop is over, return nil.
replace_Return ==
    /\ rpc = "loop"
    /\ idx > Len(archive)
    /\ rpc' = "returned"
    /\ UNCHANGED <<updVars, staging, archive, idx, files, rerr>>

\* The process is terminated between two steps of replace.
replace_Kill ==
    /\ rpc \in {"open", "mkdirtemp", "loop"}
    /\ rpc' = "killed"
    /\ UNCHANGED <<updVars, staging, archive, idx, files, rerr>>

NextReplace ==
    \/ replace_Open
    \/ replace_MkdirTemp
    \/ replace_Entry
    \/ replace_Return
    \/ replace_Kill

ReplaceSpec == InitReplace /\ [][NextReplace]_vars

----------------------------------------------------------------------------
(* Properties.                                                             *)

\* Process p is between a successful return of lock(dir) and the call of the
\* release function.
Holds(p) == pc[p] \in {"locked", "fetch", "install", "release"}

Holders == {p \in Procs : Holds(p)}

\* C1: on POSIX, two processes never hold the lock at the same time: at most
\* one process is between the return of lock(dir) and its release call.
C1_MutualExclusion == platform = "unix" => Cardinality(Holders) <= 1

\* A process holds the lock while another one has opened the lock file and
\* waits in Flock.
C1_Witness ==
    /\ platform = "unix"
    /\ \E p, q \in Procs : p # q /\ Holds(p) /\ pc[q] = "flock"

\* C2: on Windows, while one process holds the lock no other lock(dir) call
\* returns success: a second holder never appears.
C2_WindowsExclusion == platform = "windows" => Cardinality(Holders) <= 1

\* C3: of the invocations that require one version, one performs the download
\* and install; no two are in the download at the same time and no version is
\* downloaded and installed twice.
C3_SingleDownload ==
    /\ \A v \in Versions : downloads[v] <= 1
    /\ \A p, q \in Procs :
          p # q /\ pc[p] \in {"fetch", "install"} /\ pc[q] \in {"fetch", "install"}
              => toolsVersion[p] # toolsVersion[q]

\* C4: on POSIX a lock(dir) call under contention waits: while another
\* process holds the lock the caller stays in Flock (it leaves only by a fault
\* of the operating system or by being terminated), and when holders release,
\* every waiting caller eventually acquires the lock.
C4_BlockingAcquire ==
    /\ [][\A p \in Procs :
            (platform = "unix" /\ pc[p] = "flock"
                /\ \E h \in HandleOf(p, LastFile(p).fd) : FlockConflict(h))
            => \/ pc'[p] = "flock"
               \/ err'[p] = "ENOLCK"
               \/ exitKind'[p] = "killed"]_vars
    /\ \A p \in Procs :
          (platform = "unix" /\ pc[p] = "flock")
              ~> ("lock" \in effects[p] \/ err[p] = "ENOLCK" \/ exitKind[p] = "killed")

\* A process waits in Flock, in conflict with a holder that is about to
\* call its release function.
C4_Witness ==
    /\ platform = "unix"
    /\ \E p, q \in Procs :
          /\ p # q /\ pc[p] = "flock" /\ pc[q] = "release"
          /\ \E h \in HandleOf(p, LastFile(p).fd) : FlockConflict(h)

\* C5: after a holder called its release function, or terminated without
\* calling it, it has no descriptor on the lock file; no descriptor belongs to
\* a finished process; and with no holder and no release call under way the
\* lock is free, so the next lock(dir) call succeeds.
C5_Released ==
    /\ \A h \in handles : pc[h.proc] # "done"
    /\ \A p \in Procs :
          pc[p] \in {"download_ret", "done"} /\ "lock" \in effects[p]
              => HandlesOf(p) = {}
    /\ (Holders = {} /\ rel = EmptyBag) =>
          /\ \A h \in handles : ~h.flock
          /\ lockFile # 0 => ~SharingViolation(lockFile, DesiredAccess, ShareMode)

\* A holder was terminated before it released, and another process holds the
\* lock after it.
C5_Witness ==
    /\ platform = "unix"
    /\ \E p, q \in Procs :
          p # q /\ exitKind[p] = "killed" /\ "lock" \in effects[p] /\ Holds(q)

\* C6: once created, the lock file stays, and it stays the same file: every
\* open descriptor refers to the file now at <dir>/.lock.
C6_LockFileKept ==
    [][/\ lockFile # 0 => lockFile' = lockFile
       /\ \A h \in handles' : h.ino = lockFile']_vars

\* The lock file exists after a process acquired, released and exited, while
\* another process holds the lock on it.
C6_Witness ==
    \E p, q \in Procs :
        /\ p # q /\ pc[p] = "done" /\ exitKind[p] = "exit" /\ "lock" \in effects[p]
        /\ Holds(q) /\ lockFile # 0

\* C7: when the child was launched and returned code c, the parent ends by an
\* exit with exactly c, zero or not.
C7_ExitCodePropagated ==
    \A p \in Procs :
        child[p] # -1 => exitKind[p] = "exit" /\ exitCode[p] = child[p]

\* A child returned a non-zero code and the parent exited with it.
C7_Witness ==
    \E p \in Procs : child[p] = 3 /\ pc[p] = "done" /\ exitCode[p] = 3

\* C8: when CheckLocal reports that no re-exec is needed, the invocation calls
\* neither Download nor Exec, takes no lock, fetches nothing and writes
\* nothing.
C8_NoUpdateWork ==
    \A p \in Procs :
        pc[p] # "main" /\ ~reExec[p]
            => /\ effects[p] \cap {"Download", "Exec", "lock", "fetch", "write"} = {}
               /\ HandlesOf(p) = {}

\* An invocation that needed no re-exec has returned from main while another
\* invocation is in the middle of an update.
C8_Witness ==
    \E p, q \in Procs :
        /\ pc[p] = "done" /\ ~reExec[p] /\ exitKind[p] = "return"
        /\ Holds(q)

\* C9 as stated: with the first argument `version`, neither Download nor Exec
\* is invoked, whatever CheckLocal reports.
C9_VersionBypassesUpdate ==
    \A p \in Procs :
        args[p] = "version" => effects[p] \cap {"Download", "Exec"} = {}

\* C9 amended: with the first argument `version`, the update flow is bypassed
\* only when CheckLocal reports no re-exec, and then main prints the version
\* before it returns; when CheckLocal reports a re-exec, Download is invoked
\* and this process never prints its version.
C9_VersionAfterResolution ==
    \A p \in Procs :
        args[p] = "version" /\ pc[p] # "main" =>
            /\ reExec[p] => "Download" \in effects[p] /\ "print" \notin effects[p]
            /\ ~reExec[p] =>
                  /\ effects[p] \cap {"Download", "Exec"} = {}
                  /\ exitKind[p] = "return" => "print" \in effects[p]

\* Both cases have happened: one invocation with `version` printed and
\* returned, another one with `version` went through Download and Exec.
C9_Witness ==
    \E p, q \in Procs :
        /\ args[p] = "version" /\ exitKind[p] = "return" /\ "print" \in effects[p]
        /\ args[q] = "version" /\ reExec[q] /\ "Exec" \in effects[q]
        /\ pc[q] = "done"

\* C10: an update failure at the entry point (Download returned an error, or
\* the child could not be launched) ends the process by an exit with a
\* non-zero code, never by a panic.
C10_ClearExitOnFailure ==
    \A p \in Procs :
        pc[p] = "done" /\ err[p] # "nil" /\ exitKind[p] # "killed"
            => exitKind[p] = "exit" /\ exitCode[p] # 0

\* C11: when the update attempt fails while the required version is already
\* installed locally, the invocation still runs that cached version: it goes
\* on to Exec and does not end by a failure of its own.
C11_FallbackToCached ==
    [][\A p \in Procs :
          (/\ pc[p] = "download_ret" /\ err[p] # "nil"
           /\ toolsVersion[p] \in installed
           /\ pc'[p] = "done" /\ exitKind'[p] # "killed")
          => "Exec" \in effects'[p] /\ exitKind'[p] = "exit"]_vars

\* C15: in one invocation Download is invoked only by the step that resolved
\* the version, and only when it reported a re-exec; Exec is invoked only
\* after Download was invoked and has returned without an error, so Exec
\* neither precedes Download nor follows a failed Download.
C15_UpdateCycleOrder ==
    [][\A p \in Procs :
          /\ ("Download" \in effects'[p] /\ "Download" \notin effects[p])
                => pc[p] = "main" /\ reExec'[p] /\ "Exec" \notin effects'[p]
          /\ ("Exec" \in effects'[p] /\ "Exec" \notin effects[p])
                => /\ pc[p] = "download_ret" /\ err[p] = "nil"
                   /\ reExec[p] /\ "Download" \in effects[p]]_vars

\* One invocation launched the child after a Download that fetched the
\* version; another one ended by the panic after a failed Download, without
\* Exec.
C15_Witness ==
    \E p, q \in Procs :
        /\ pc[p] = "done" /\ {"Download", "fetch", "Exec"} \subseteq effects[p]
        /\ pc[q] = "done" /\ exitKind[q] = "panic" /\ "Exec" \notin effects[q]

\* The errors replace returns from inside its loop, after the staging
\* directory was created.
EntryErrors == {"Open", "CreateTemp", "Chmod", "Copy"}

\* replace returned an error from inside the loop over the entries.
FailedInLoop == rpc = "returned" /\ idx >= 1 /\ rerr \in EntryErrors

\* C12: whenever replace returns an error after it created its staging
\* directory, that directory has been removed: no temp-tools-dir is left
\* under the tools directory.
C12_StagingRemovedOnError == FailedInLoop => staging = 0

\* The path lies inside the staging directory of this call.
InStaging(path) ==
    Len(path) > Len(TempDir) /\ SubSeq(path, 1, Len(TempDir)) = TempDir

\* The files outside the staging directory, the installed binaries among them.
FinalFiles == {f \in files : ~InStaging(f.path)}

\* C13: no step of replace, up to its failure or the termination of the
\* process, changes a file outside its staging directory: the binaries
\* installed before keep their content and stay, and no file, partial or
\* complete, appears under a final path.
C13_FinalPathsUntouched == [][FinalFiles' = FinalFiles]_vars

\* replace failed at the entry tsh.exe after it created the staging
\* directory, and the tsh.exe installed before is still there.
C13_Witness ==
    /\ FailedInLoop
    /\ staging = 1
    /\ archive[idx] = <<"tsh.exe">>
    /\ [path |-> Join(ToolsDir, <<"tsh.exe">>), content |-> "old"] \in files

\* The entry names of the expected tool binaries.
ExpectedNames == {<<b>> : b \in Binaries}

\* C16: every file replace creates lies inside the staging directory and
\* belongs to an entry named tsh.exe or tctl.exe that the loop has reached;
\* at every other entry, names with a directory component or a path
\* traversal included, the loop only moves on: no file is created or
\* changed anywhere and replace does not return there.
C16_ExtractionFilter ==
    /\ [](\A f \in files :
            f.content # "old" =>
                /\ InStaging(f.path)
                /\ \E i \in 1..Len(archive) :
                      i <= idx /\ archive[i] \in ExpectedNames)
    /\ [][(rpc = "loop" /\ idx <= Len(archive)
              /\ archive[idx] \notin ExpectedNames /\ rpc' # "killed")
           => (idx' = idx + 1 /\ rpc' = "loop" /\ files' = files
                 /\ rerr' = "nil" /\ staging' = staging)]_vars

\* replace went through an archive whose entries are ../tsh.exe and
\* teleport/tsh.exe, skipped both and returned nil.
C16_Witness ==
    /\ rpc = "returned" /\ rerr = "nil" /\ idx > Len(archive)
    /\ archive = << <<"..", "tsh.exe">>, <<"teleport", "tsh.exe">> >>
    /\ staging = 1

\* The lock calls of p that returned a release function not called so far.
Acquired(p) == {i \in DOMAIN lf[p] : lf[p][i].closure /\ ~lf[p][i].called}

\* What a call of a release function could change and must not: the
\* descriptors and handles, the lock file, and the course of the processes.
lockState == <<handles, fsVars, pc, err, exitKind, exitCode>>

\* C17: a call of a release function made after a call of it has returned
\* changes nothing at any of its steps: no descriptor or handle is closed or
\* unlocked, the one of a later acquire of the same process included, the
\* lock file stays, the os.File stays closed and the process goes on.
C17_SecondReleaseNoOp ==
    /\ [][\A r \in BagToSet(rel) :
            (lf[r.proc][r.i].done /\ (release_Flock(r) \/ release_Close(r)))
                => UNCHANGED lockState /\ lf' = lf]_vars
    /\ [][\A p \in Procs : \A i \in DOMAIN lf[p] :
            (lf[p][i].done /\ Caller_Release(p, i))
                => UNCHANGED lockState /\ lf' = lf]_vars

\* On POSIX a process called its first release function again after the
\* function had returned and after its second lock call had returned; the
\* second call has done its Flock, and the second acquisition is locked.
C17_Witness ==
    /\ platform = "unix"
    /\ \E p \in Procs :
          /\ Len(lf[p]) = 2
          /\ lf[p][1].done
          /\ 2 \in Acquired(p)
          /\ \E h \in HandleOf(p, lf[p][2].fd) : h.flock
          /\ \E r \in RelOf(p) : r.i = 1 /\ r.step = "close"

\* C18: the lock is not reentrant: a process never has two acquisitions at
\* once; its second lock(dir) call does not return a release function
\* before the release function of the first one was called.
C18_NotReentrant == \A p \in Procs : Cardinality(Acquired(p)) <= 1

\* The errors of an open in a directory that does not exist.
NoDirErrors == {"ENOENT", "ERROR_PATH_NOT_FOUND"}

\* The errors of an open the operating system refuses in a directory that
\* exists.
OpenFaults == {"EACCES", "ERROR_ACCESS_DENIED"}

\* C19: the open of lock(dir).  Without the tools directory the call returns
\* an error and no release function, makes no file and opens nothing.  With
\* the directory the call opens <dir>/.lock, the file that is there or else a
\* new one; and when no process holds the lock the call is not refused for
\* the lock and does not wait: only a fault of the operating system (the
\* open is refused and nothing is made or opened, Flock error,
\* SetHandleInformation error) keeps it from returning a release function.
C19_OpenOrCreate ==
    /\ [][\A p \in Procs :
            (pc[p] = "lock" /\ pc'[p] # "lock") =>
                IF ~dirExists
                THEN /\ err'[p] \in NoDirErrors
                     /\ pc'[p] = "download_ret"
                     /\ UNCHANGED <<fsVars, handles, lf>>
                ELSE \/ /\ err'[p] \in OpenFaults
                        /\ pc'[p] = "download_ret"
                        /\ UNCHANGED <<fsVars, handles, lf>>
                     \/ /\ lockFile' # 0
                        /\ lockFile # 0 => lockFile' = lockFile
                        /\ \E h \in handles' \ handles :
                              h.proc = p /\ h.ino = lockFile'
                        /\ Holders = {} =>
                              err'[p] \in {"nil", "SetHandleInformation"}]_vars
    /\ [](\A p \in Procs :
            (platform = "unix" /\ pc[p] = "flock" /\ Holders = {}
                /\ rel = EmptyBag)
                => \A h \in HandleOf(p, LastFile(p).fd) : ~FlockConflict(h))

\* A process acquired the lock on a lock file it did not create, after the
\* process that created the file had acquired, released and exited.
C19_Witness ==
    \E p, q \in Procs :
        /\ p # q
        /\ pc[q] = "done" /\ exitKind[q] = "exit" /\ "lock" \in effects[q]
        /\ pc[p] = "locked" /\ "write" \notin effects[p]
        /\ lockFile # 0

\* The errors lock(dir) returns.
LockErrors ==
    NoDirErrors \cup OpenFaults
        \cup {"ENOLCK", "ErrLocked", "SetHandleInformation"}

\* C20: when lock(dir) has returned an error, the calling process has no
\* descriptor or handle open on the lock file.
C20_NoLeakOnFailedAcquire ==
    \A p \in Procs :
        pc[p] = "download_ret" /\ err[p] \in LockErrors => HandlesOf(p) = {}

====
